---- MODULE Spec2Model ----
(***************************************************************************)
(* The dog-license application wizard of src/app/new-application/page.tsx: *)
(* a four-step form (react-hook-form + zod) whose draft and submissions    *)
(* live in the browser's localStorage.                                     *)
(*                                                                         *)
(* JavaScript values are records tagged by their type.  A string is the    *)
(* sequence of its characters, so lengths, digit stripping and parsing are *)
(* computed.  A localStorage item is null or a text; a text is either the  *)
(* serialisation of a JSON value or a text JSON.parse rejects.             *)
(***************************************************************************)
EXTENDS Integers, Sequences, FiniteSets, TLC

VARIABLES
    hasWindow,        \* typeof window !== "undefined": a browser runs the component
    localStorage,     \* key -> item (null or text), shared by every tab of the origin
    isClient,         \* useState(false), line 95
    dogLicenseSchema, \* useState(() => createDogLicenseSchema()), line 96
    currentStep,      \* useState(1), line 94: the state after every queued update
    renderedStep,     \* currentStep as the last committed render saw it
    formValues,       \* react-hook-form's field values
    defaultValues,    \* react-hook-form's default values (what form.reset() restores)
    watchedValues,    \* form.watch() as the last committed render saw it, line 139
    pc,               \* where the component is: loading, ready, inside onSubmit, gone
    savedData,        \* what the restore effect read at line 126, until the user acts
    submission,       \* locals of the running onSubmit, then its outcome
    toast,            \* the notification raised by the last step, if any
    timers,           \* identifiers whose setTimeout redirect is pending, line 181
    location,         \* window.location.href
    tabB              \* a second tab's onSubmit: idle, or between its read and write

vars == <<hasWindow, localStorage, isClient, dogLicenseSchema, currentStep,
          renderedStep, formValues, defaultValues, watchedValues, pc, savedData,
          submission, toast, timers, location, tabB>>

(***************************************************************************)
(* Bounds of the model.                                                    *)
(***************************************************************************)
\* localStorage's quota, counted in submission records: setItem of a longer
\* list throws QuotaExceededError.  The draft always fits.
QuotaRecords == 2

(***************************************************************************)
(* JavaScript values.                                                      *)
(***************************************************************************)
Undefined == [t |-> "undefined"]
Null == [t |-> "null"]
Str(chars) == [t |-> "string", s |-> chars]
Num(n) == [t |-> "number", n |-> n]
Obj(f) == [t |-> "object", o |-> f]
Arr(items) == [t |-> "array", a |-> items]
File(size, type) == [size |-> size, type |-> type]
FileList(files) == [t |-> "FileList", files |-> files]

Digits == {"0", "1", "2", "3", "4", "5", "6", "7", "8", "9"}

DigitValue(c) ==
    CASE c = "0" -> 0 [] c = "1" -> 1 [] c = "2" -> 2 [] c = "3" -> 3
      [] c = "4" -> 4 [] c = "5" -> 5 [] c = "6" -> 6 [] c = "7" -> 7
      [] c = "8" -> 8 [] c = "9" -> 9

DigitChar(d) == <<"0", "1", "2", "3", "4", "5", "6", "7", "8", "9">>[d + 1]

\* The decimal numeral of a natural number, as `${n}` prints it.
RECURSIVE NumberToString(_)
NumberToString(n) ==
    IF n < 10 THEN <<DigitChar(n)>>
    ELSE NumberToString(n \div 10) \o <<DigitChar(n % 10)>>

\* The number a sequence of digits denotes.
RECURSIVE DigitsToNumber(_)
DigitsToNumber(chars) ==
    IF chars = <<>> THEN 0
    ELSE 10 * DigitsToNumber(SubSeq(chars, 1, Len(chars) - 1))
         + DigitValue(chars[Len(chars)])

AllDigits(chars) == \A i \in 1..Len(chars) : chars[i] \in Digits

Min(a, b) == IF a < b THEN a ELSE b
Max(a, b) == IF a > b THEN a ELSE b

(***************************************************************************)
(* JSON.stringify and JSON.parse.                                          *)
(***************************************************************************)
InvalidText == [text |-> "invalid"]
JsonText(v) == [text |-> "json", v |-> v]

\* The JSON value JSON.stringify writes for a JavaScript value: an object
\* loses its undefined properties, a FileList becomes an object with one
\* empty object per file (a File has no enumerable property of its own).
RECURSIVE ToJSON(_)
ToJSON(v) ==
    CASE v.t = "object" ->
           LET kept == {k \in DOMAIN v.o : v.o[k].t # "undefined"}
           IN  Obj([k \in kept |-> ToJSON(v.o[k])])
      [] v.t = "array" ->
           Arr([i \in 1..Len(v.a) |->
                  IF v.a[i].t = "undefined" THEN Null ELSE ToJSON(v.a[i])])
      [] v.t = "FileList" ->
           Obj([i \in {DigitChar(k - 1) : k \in 1..Len(v.files)} |->
                  Obj(<<>>)])
      [] OTHER -> v

JSONstringify(v) == JsonText(ToJSON(v))

\* JSON.parse: the value, or a SyntaxError.
JSONparse(text) ==
    IF text.text = "json" THEN [threw |-> FALSE, value |-> text.v]
    ELSE [threw |-> TRUE, value |-> Undefined]

(***************************************************************************)
(* The helpers imported from "@/lib/utils" (line 16).  Their code is not   *)
(* among the sources; they are modelled from section 4.1 of the            *)
(* specification, on integer ages and on dates written YYYY-MM-DD.         *)
(***************************************************************************)
\* The current date, <<year, month, day>>.
Today == <<2026, 11, 5>>

\* "must normalize to a valid 10-digit US phone number": the digits of the
\* input, and whether there are ten of them.
sanitizeUSPhone(val) ==
    LET digits == SelectSeq(val, LAMBDA c : c \in Digits)
    IN  [ok |-> Len(digits) = 10, value |-> digits]

\* The number a decimal numeral denotes, or null.
parseNumberSafe(val) ==
    IF val # <<>> /\ AllDigits(val) THEN Num(DigitsToNumber(val)) ELSE Null

isPositiveNumber(num) == num.n > 0

IsLeapYear(y) == (y % 4 = 0 /\ y % 100 # 0) \/ y % 400 = 0

DaysInMonth(y, m) ==
    IF m = 2 THEN (IF IsLeapYear(y) THEN 29 ELSE 28)
    ELSE IF m \in {4, 6, 9, 11} THEN 30 ELSE 31

\* The calendar date a text denotes, or null.
coerceDate(val) ==
    IF /\ Len(val) = 10
       /\ val[5] = "-" /\ val[8] = "-"
       /\ AllDigits(SubSeq(val, 1, 4))
       /\ AllDigits(SubSeq(val, 6, 7))
       /\ AllDigits(SubSeq(val, 9, 10))
    THEN LET y == DigitsToNumber(SubSeq(val, 1, 4))
             m == DigitsToNumber(SubSeq(val, 6, 7))
             d == DigitsToNumber(SubSeq(val, 9, 10))
         IN  IF m \in 1..12 /\ d >= 1 /\ d <= DaysInMonth(y, m)
             THEN [t |-> "Date", ymd |-> <<y, m, d>>]
             ELSE Null
    ELSE Null

\* d1 is not after d2.
DateLeq(d1, d2) ==
    \/ d1[1] < d2[1]
    \/ d1[1] = d2[1] /\ d1[2] < d2[2]
    \/ d1[1] = d2[1] /\ d1[2] = d2[2] /\ d1[3] <= d2[3]

\* "fall within the last `years` years of the current date".
isWithinYears(date, years) ==
    /\ DateLeq(<<Today[1] - years, Today[2], Today[3]>>, date.ymd)
    /\ DateLeq(date.ymd, Today)

(***************************************************************************)
(* createDogLicenseSchema, lines 18-82: one rule per field.                *)
(***************************************************************************)
ScalarFields ==
    {"ownerName", "ownerAddress", "ownerPhone", "dogName", "dogBreed",
     "dogAge", "dogColor", "lastRabiesShotDate"}

Fields == ScalarFields \cup {"vaccinationCertificate"}

\* z.string().min(lo).max(hi)
StringBetween(v, lo, hi) == v.t = "string" /\ Len(v.s) >= lo /\ Len(v.s) <= hi

ownerNameRule(v) == StringBetween(v, 2, 100)
ownerAddressRule(v) == StringBetween(v, 10, 200)
ownerPhoneRule(v) == v.t = "string" /\ sanitizeUSPhone(v.s).ok
dogNameRule(v) == StringBetween(v, 1, 50)
dogBreedRule(v) == StringBetween(v, 1, 50)
dogAgeRule(v) ==
    /\ v.t = "string"
    /\ LET num == parseNumberSafe(v.s)
       IN  num # Null /\ isPositiveNumber(num) /\ num.n <= 30
dogColorRule(v) == StringBetween(v, 1, 30)
lastRabiesShotDateRule(v) ==
    /\ v.t = "string"
    /\ coerceDate(v.s) # Null
    /\ LET date == coerceDate(v.s) IN date # Null /\ isWithinYears(date, 3)

AllowedTypes == {"application/pdf", "image/jpeg", "image/png", "image/jpg"}

\* A file rule that refuses a file of exactly five megabytes.
FileListRule_Below(v) ==
    /\ v.t = "FileList"
    /\ Len(v.files) > 0
    /\ v.files[1].size < 5 * 1024 * 1024
    /\ v.files[1].type \in AllowedTypes

\* Lines 62-73: z.instanceof(FileList) and its three refinements.
FileListRule(v) ==
    /\ v.t = "FileList"
    /\ Len(v.files) > 0
    /\ v.files[1].size <= 5 * 1024 * 1024
    /\ v.files[1].type \in AllowedTypes

\* The schema the function returns is named by its file rule: "FileList"
\* where window and FileList exist (line 59), "any" otherwise (line 79).
createDogLicenseSchema(window) == IF window THEN "FileList" ELSE "any"

vaccinationCertificateRule(schema, v) ==
    IF schema = "FileList" THEN FileListRule(v) ELSE TRUE

\* Whether the value of one field passes the schema's rule for it.
FieldValid(schema, field, v) ==
    CASE field = "ownerName" -> ownerNameRule(v)
      [] field = "ownerAddress" -> ownerAddressRule(v)
      [] field = "ownerPhone" -> ownerPhoneRule(v)
      [] field = "dogName" -> dogNameRule(v)
      [] field = "dogBreed" -> dogBreedRule(v)
      [] field = "dogAge" -> dogAgeRule(v)
      [] field = "dogColor" -> dogColorRule(v)
      [] field = "lastRabiesShotDate" -> lastRabiesShotDateRule(v)
      [] field = "vaccinationCertificate" -> vaccinationCertificateRule(schema, v)

\* zodResolver(dogLicenseSchema): the fields of `values` that have an error.
FieldErrors(schema, values) ==
    {f \in Fields : ~FieldValid(schema, f, values[f])}

(***************************************************************************)
(* The wizard's fixed data.                                                *)
(***************************************************************************)
\* STEPS, lines 86-91 (the ids).
STEPS == <<1, 2, 3, 4>>

\* A getFieldsForStep that forgets the file field of step 3.
getFieldsForStep_NoFile(step) ==
    CASE step = 1 -> {"ownerName", "ownerAddress", "ownerPhone"}
      [] step = 2 -> {"dogName", "dogBreed", "dogAge", "dogColor"}
      [] step = 3 -> {"lastRabiesShotDate"}
      [] OTHER -> {}

\* getFieldsForStep, lines 205-216.
getFieldsForStep(step) ==
    CASE step = 1 -> {"ownerName", "ownerAddress", "ownerPhone"}
      [] step = 2 -> {"dogName", "dogBreed", "dogAge", "dogColor"}
      [] step = 3 -> {"lastRabiesShotDate", "vaccinationCertificate"}
      [] OTHER -> {}

\* useForm's defaultValues, lines 100-109: the file field has none.
InitialDefaultValues ==
    [f \in Fields |-> IF f \in ScalarFields THEN Str(<<>>) ELSE Undefined]

\* What the user may type into, or choose for, each field.
ValidInput(field) ==
    CASE field = "ownerName" -> Str(<<"J", "o">>)
      [] field = "ownerAddress" ->
           Str(<<"1", "2", " ", "M", "a", "i", "n", " ", "S", "t">>)
      [] field = "ownerPhone" ->
           Str(<<"(", "5", "5", "5", ")", " ", "1", "2", "3", "-",
                 "4", "5", "6", "7">>)
      [] field = "dogName" -> Str(<<"R", "e", "x">>)
      [] field = "dogBreed" -> Str(<<"L", "a", "b">>)
      [] field = "dogAge" -> Str(<<"4">>)
      [] field = "dogColor" -> Str(<<"T", "a", "n">>)
      [] field = "lastRabiesShotDate" ->
           Str(<<"2", "0", "2", "4", "-", "1", "1", "-", "0", "5">>)
      [] field = "vaccinationCertificate" ->
           FileList(<<File(2 * 1024 * 1024, "application/pdf")>>)

Inputs(field) ==
    {ValidInput(field)} \cup
    (CASE field = "vaccinationCertificate" ->
            {FileList(<<File(6 * 1024 * 1024, "image/png")>>)}
       [] OTHER -> {Str(<<>>)})

ValidValues == [f \in Fields |-> ValidInput(f)]

\* Date.now() and Math.random(): the readings a run may get.  A random
\* number is a fraction <<numerator, denominator>> in [0, 1).
ClockReadings == {1000}
RandomSamples == {<<9999, 10000>>}

\* localStorage items.
NoItem == [text |-> "null"]
getItem(key) == localStorage[key]

\* A save effect without the delete of line 143.
DraftText_KeepFile(values) == JSONstringify(Obj(values))

\* Lines 142-144: the watched values without the file, serialised.
DraftText(values) ==
    JSONstringify(Obj([f \in DOMAIN values \ {"vaccinationCertificate"} |->
                         values[f]]))

\* A generateApplicationId whose suffix is drawn from 0..99999.
generateApplicationId_WideRandom(timestamp, random) ==
    <<"D", "O", "G", "-">> \o NumberToString(timestamp) \o <<"-">>
        \o NumberToString((random[1] * 100000) \div random[2])

\* generateApplicationId, lines 148-152.
generateApplicationId(timestamp, random) ==
    <<"D", "O", "G", "-">> \o NumberToString(timestamp) \o <<"-">>
        \o NumberToString((random[1] * 10000) \div random[2])

\* new Date().toISOString(), line 163: the instant, kept as its numeral.
toISOString(timestamp) == NumberToString(timestamp)

\* applicationData, lines 160-165.
ApplicationData(applicationId, data, timestamp) ==
    Obj([k \in {"id", "submittedAt", "status"} \cup DOMAIN data |->
           CASE k = "id" -> Str(applicationId)
             [] k = "submittedAt" -> Str(toISOString(timestamp))
             [] k = "status" -> Str(<<"s", "u", "b", "m", "i", "t", "t", "e", "d">>)
             [] OTHER -> data[k]])

\* The records earlier sessions of the wizard stored.
EarlierRecord(i) ==
    ToJSON(ApplicationData(generateApplicationId(990 + i, <<1, 2>>), ValidValues,
                           990 + i))

\* A list of one record, and a list that fills the quota.
OneRecordList == JsonText(Arr(<<EarlierRecord(1)>>))
FullList == JsonText(Arr([i \in 1..QuotaRecords |-> EarlierRecord(i)]))

\* The draft an earlier session left for the values of its scalar fields.
EarlierDraft(values) == JsonText(Obj([f \in ScalarFields |-> ToJSON(values[f])]))

InitialDrafts ==
    {NoItem, InvalidText, EarlierDraft(InitialDefaultValues),
     EarlierDraft(ValidValues)}

InitialLists ==
    {NoItem, InvalidText, JsonText(Obj(<<>>)), OneRecordList, FullList}

NoToast == [kind |-> "none"]
NoSubmission == [state |-> "none"]
NotRead == [text |-> "not read"]
FormPage == [path |-> "/new-application"]
TrackPage(id) == [path |-> "/track-application", id |-> id]

Init ==
    /\ hasWindow \in BOOLEAN
    /\ localStorage \in [dogLicenseFormData : InitialDrafts,
                         dogLicenseApplications : InitialLists]
    /\ isClient = FALSE
    /\ dogLicenseSchema = createDogLicenseSchema(hasWindow)
    /\ currentStep = 1
    /\ renderedStep = 1
    /\ formValues = InitialDefaultValues
    /\ defaultValues = InitialDefaultValues
    /\ watchedValues = InitialDefaultValues
    /\ pc = "initial"
    /\ savedData = NotRead
    /\ submission = NoSubmission
    /\ toast = NoToast
    /\ timers = {}
    /\ location = FormPage
    /\ tabB = NoSubmission

(***************************************************************************)
(* Pieces of the handlers and effects.                                     *)
(***************************************************************************)
\* An update is queued, or form values changed, that no render has shown yet.
RenderPending == watchedValues # formValues \/ renderedStep # currentStep

\* A restore that resets the form without the parsed values.
ResetValues_Ignored(parsed) == InitialDefaultValues

\* form.reset(values), line 130: the object's properties become the values.
ResetValues(parsed) ==
    [f \in Fields |->
       IF parsed.t = "object" /\ f \in DOMAIN parsed.o THEN parsed.o[f]
       ELSE Undefined]

\* A restore whose JSON.parse is outside the try block.
restoreTry_NoCatch(threw) == IF threw THEN "escaped" ELSE "completed"

\* try { ... } catch, lines 128-134: what becomes of an exception thrown
\* inside the block.
restoreTry(threw) == IF threw THEN "caught" ELSE "completed"

\* An onSubmit without its try block.
onSubmitTry_NoCatch(threw) == IF threw THEN "escaped" ELSE "completed"

\* try { ... } catch, lines 157-187.
onSubmitTry(threw) == IF threw THEN "caught" ELSE "completed"

\* form.trigger(fieldsToValidate), line 192: no named field has an error.
trigger(schema, values, fieldsToValidate) ==
    FieldErrors(schema, values) \cap fieldsToValidate = {}

\* An updater of line 195 without Math.min.
nextStepUpdater_NoClamp(prev) == prev + 1

\* The updaters of lines 195 and 202.
nextStepUpdater(prev) == Min(prev + 1, Len(STEPS))
prevStepUpdater(prev) == Max(prev - 1, 1)

\* Line 168: JSON.parse(getItem(...) || "[]"); line 169 needs an array.
ReadApplications(item) ==
    LET text == IF item = NoItem THEN JsonText(Arr(<<>>)) ELSE item
        parsed == JSONparse(text)
    IN  IF parsed.threw THEN [threw |-> TRUE, apps |-> <<>>]
        ELSE IF parsed.value.t # "array" THEN [threw |-> TRUE, apps |-> <<>>]
        ELSE [threw |-> FALSE, apps |-> parsed.value.a]

\* An unshift in place of the push of line 169.
push_Front(existingApps, applicationData) == <<applicationData>> \o existingApps

\* existingApps.push(applicationData), line 169.
push(existingApps, applicationData) == Append(existingApps, applicationData)

\* A handleSubmit that validates the fields of the last form step only.
handleSubmitValid_LastStepOnly(schema, values) ==
    FieldErrors(schema, values) \cap getFieldsForStep(3) = {}

\* form.handleSubmit, line 300: onSubmit is called when the resolver finds
\* no error in the whole of the values.
handleSubmitValid(schema, values) == FieldErrors(schema, values) = {}

\* localStorage.setItem of a submission list throws when the list is over
\* the quota.
QuotaExceeded(existingApps) == Len(existingApps) > QuotaRecords

\* The submit event reaches the form (line 300) from the Submit button,
\* rendered at the last step (lines 514-524), or from Enter in the date
\* input of step 3, the only text-like input of a form that then has no
\* submit button (lines 426, 442, 515).
SubmitEventPossible == renderedStep = Len(STEPS) \/ renderedStep = 3

Running(state, applicationId, applicationData, existingApps, before, draft) ==
    [state |-> state, applicationId |-> applicationId,
     applicationData |-> applicationData, existingApps |-> existingApps,
     before |-> before, draft |-> draft]

FailureToast ==
    [kind |-> "error", message |-> "Failed to submit application. Please try again."]
FixErrorsToast ==
    [kind |-> "error", message |-> "Please fix the errors before continuing"]
RestoredToast == [kind |-> "info", message |-> "Previous form data restored"]
SuccessToast(applicationId) == [kind |-> "success", id |-> applicationId]

(***************************************************************************)
(* Loading: the effects after the first and the second render.             *)
(***************************************************************************)
\* Lines 113-116; the other effects see isClient false and do nothing.
MountEffects ==
    /\ pc = "initial"
    /\ hasWindow
    /\ isClient' = TRUE
    /\ dogLicenseSchema' = createDogLicenseSchema(hasWindow)
    /\ pc' = "restore"
    /\ toast' = NoToast
    /\ UNCHANGED <<hasWindow, localStorage, currentStep, renderedStep, formValues,
                   defaultValues, watchedValues, savedData, submission, timers,
                   location, tabB>>

\* Lines 124-137, after the render that saw isClient true.
RestoreEffect ==
    /\ pc = "restore"
    /\ isClient
    /\ LET saved == getItem("dogLicenseFormData")
           parsed == JSONparse(saved)
       IN  /\ savedData' = saved
           /\ IF saved = NoItem
              THEN /\ pc' = "save"
                   /\ toast' = NoToast
                   /\ UNCHANGED <<formValues, defaultValues>>
              ELSE CASE restoreTry(parsed.threw) = "completed" ->
                          /\ formValues' = ResetValues(parsed.value)
                          /\ defaultValues' = ResetValues(parsed.value)
                          /\ toast' = RestoredToast
                          /\ pc' = "save"
                     [] restoreTry(parsed.threw) = "caught" ->
                          /\ toast' = NoToast
                          /\ pc' = "save"
                          /\ UNCHANGED <<formValues, defaultValues>>
                     [] OTHER ->
                          /\ toast' = NoToast
                          /\ pc' = "crashed"
                          /\ UNCHANGED <<formValues, defaultValues>>
    /\ UNCHANGED <<hasWindow, localStorage, isClient, dogLicenseSchema, currentStep,
                   renderedStep, watchedValues, submission, timers, location, tabB>>

\* Lines 140-146 in the same commit: the values are those the render
\* watched, before the restore effect reset the form.
SaveEffect ==
    /\ pc = "save"
    /\ isClient
    /\ localStorage' =
         [localStorage EXCEPT !["dogLicenseFormData"] = DraftText(watchedValues)]
    /\ pc' = "ready"
    /\ toast' = NoToast
    /\ UNCHANGED <<hasWindow, isClient, dogLicenseSchema, currentStep, renderedStep,
                   formValues, defaultValues, watchedValues, savedData, submission,
                   timers, location, tabB>>

\* A render of the pending updates, and the save effect it runs.
Render ==
    /\ pc = "ready"
    /\ RenderPending
    /\ watchedValues' = formValues
    /\ renderedStep' = currentStep
    /\ localStorage' =
         [localStorage EXCEPT !["dogLicenseFormData"] = DraftText(formValues)]
    /\ toast' = NoToast
    /\ UNCHANGED <<hasWindow, isClient, dogLicenseSchema, currentStep, formValues,
                   defaultValues, pc, savedData, submission, timers, location, tabB>>

(***************************************************************************)
(* The user's events.  A change or a click is handled, rendered and its    *)
(* effects run within the event; what an async handler updates after its   *)
(* await is rendered later (Render).                                       *)
(***************************************************************************)
\* An input of the rendered step changes (lines 311-446, mode "onChange"):
\* the render that follows watches the new values and saves the draft.
ChangeField(field, value) ==
    /\ pc = "ready"
    /\ field \in getFieldsForStep(renderedStep)
    /\ value # formValues[field]
    /\ formValues' = [formValues EXCEPT ![field] = value]
    /\ watchedValues' = formValues'
    /\ localStorage' =
         [localStorage EXCEPT !["dogLicenseFormData"] = DraftText(formValues')]
    /\ savedData' = NotRead
    /\ submission' = NoSubmission
    /\ toast' = NoToast
    /\ UNCHANGED <<hasWindow, isClient, dogLicenseSchema, currentStep, renderedStep,
                   defaultValues, pc, timers, location, tabB>>

\* nextStep, lines 190-199, from the Next button (lines 514-518).
nextStep ==
    /\ pc = "ready"
    /\ renderedStep < Len(STEPS)
    /\ savedData' = NotRead
    /\ submission' = NoSubmission
    /\ UNCHANGED <<hasWindow, localStorage, isClient, dogLicenseSchema, renderedStep,
                   formValues, defaultValues, watchedValues, pc, timers, location,
                   tabB>>
    /\ LET fieldsToValidate == getFieldsForStep(renderedStep)
           isValid == trigger(dogLicenseSchema, formValues, fieldsToValidate)
       IN  IF isValid
           THEN /\ currentStep' = nextStepUpdater(currentStep)
                /\ toast' = NoToast
           ELSE /\ toast' = FixErrorsToast
                /\ UNCHANGED currentStep

\* A prevStep that goes back only from a step whose fields are valid.
prevStep_Validating ==
    /\ pc = "ready"
    /\ renderedStep # 1
    /\ IF trigger(dogLicenseSchema, formValues, getFieldsForStep(renderedStep))
       THEN /\ currentStep' = prevStepUpdater(currentStep)
            /\ renderedStep' = prevStepUpdater(renderedStep)
            /\ toast' = NoToast
       ELSE /\ toast' = FixErrorsToast
            /\ UNCHANGED <<currentStep, renderedStep>>
    /\ watchedValues' = formValues
    /\ localStorage' =
         [localStorage EXCEPT !["dogLicenseFormData"] = DraftText(formValues)]
    /\ savedData' = NotRead
    /\ submission' = NoSubmission
    /\ UNCHANGED <<hasWindow, isClient, dogLicenseSchema, formValues, defaultValues,
                   pc, timers, location, tabB>>

\* prevStep, lines 201-203, from the Previous button, disabled at step 1
\* (lines 503-512).  The click's own render applies its update to what was
\* rendered and runs the save effect.
prevStep ==
    /\ pc = "ready"
    /\ renderedStep # 1
    /\ currentStep' = prevStepUpdater(currentStep)
    /\ renderedStep' = prevStepUpdater(renderedStep)
    /\ watchedValues' = formValues
    /\ localStorage' =
         [localStorage EXCEPT !["dogLicenseFormData"] = DraftText(formValues)]
    /\ savedData' = NotRead
    /\ submission' = NoSubmission
    /\ toast' = NoToast
    /\ UNCHANGED <<hasWindow, isClient, dogLicenseSchema, formValues, defaultValues,
                   pc, timers, location, tabB>>

\* form.handleSubmit(onSubmit), line 300: the whole schema is validated and
\* onSubmit runs on valid values.  This step is onSubmit up to its read of
\* the submission list (lines 155-169).
SubmitRead ==
    /\ pc = "ready"
    /\ SubmitEventPossible
    /\ handleSubmitValid(dogLicenseSchema, formValues)
    /\ isClient
    /\ \E timestamp \in ClockReadings, random \in RandomSamples :
         LET applicationId == generateApplicationId(timestamp, random)
             applicationData == ApplicationData(applicationId, formValues, timestamp)
             before == getItem("dogLicenseApplications")
             read == ReadApplications(before)
             draft == getItem("dogLicenseFormData")
         IN  CASE onSubmitTry(read.threw) = "completed" ->
                    /\ submission' =
                         Running("running", applicationId, applicationData,
                                 push(read.apps, applicationData), before, draft)
                    /\ pc' = "onSubmit"
                    /\ toast' = NoToast
               [] onSubmitTry(read.threw) = "caught" ->
                    /\ submission' =
                         Running("failure", applicationId, applicationData,
                                 read.apps, before, draft)
                    /\ pc' = "ready"
                    /\ toast' = FailureToast
               [] OTHER ->
                    /\ submission' = NoSubmission
                    /\ pc' = "crashed"
                    /\ toast' = NoToast
    /\ savedData' = NotRead
    /\ UNCHANGED <<hasWindow, localStorage, isClient, dogLicenseSchema, currentStep,
                   renderedStep, formValues, defaultValues, watchedValues, timers,
                   location, tabB>>

\* An onSubmit that resets the form and the step before it writes the list.
SubmitWrite_ResetFirst ==
    /\ pc = "onSubmit"
    /\ formValues' = defaultValues
    /\ currentStep' = 1
    /\ IF onSubmitTry(QuotaExceeded(submission.existingApps)) = "completed"
       THEN /\ localStorage' =
                 [dogLicenseApplications |->
                    JSONstringify(Arr(submission.existingApps)),
                  dogLicenseFormData |-> NoItem]
            /\ toast' = SuccessToast(submission.applicationId)
            /\ timers' = timers \cup {submission.applicationId}
            /\ submission' = [submission EXCEPT !.state = "success"]
       ELSE /\ toast' = FailureToast
            /\ submission' = [submission EXCEPT !.state = "failure"]
            /\ UNCHANGED <<localStorage, timers>>
    /\ pc' = "ready"
    /\ UNCHANGED <<hasWindow, isClient, dogLicenseSchema, renderedStep, defaultValues,
                   watchedValues, savedData, location, tabB>>

\* The rest of onSubmit, lines 170-183, or its catch, lines 184-187.
SubmitWrite ==
    /\ pc = "onSubmit"
    /\ LET threw == QuotaExceeded(submission.existingApps)
       IN  CASE onSubmitTry(threw) = "completed" ->
                  /\ localStorage' =
                       [dogLicenseApplications |->
                          JSONstringify(Arr(submission.existingApps)),
                        dogLicenseFormData |-> NoItem]
                  /\ toast' = SuccessToast(submission.applicationId)
                  /\ formValues' = defaultValues
                  /\ currentStep' = 1
                  /\ timers' = timers \cup {submission.applicationId}
                  /\ submission' = [submission EXCEPT !.state = "success"]
                  /\ pc' = "ready"
             [] onSubmitTry(threw) = "caught" ->
                  /\ toast' = FailureToast
                  /\ submission' = [submission EXCEPT !.state = "failure"]
                  /\ pc' = "ready"
                  /\ UNCHANGED <<localStorage, formValues, currentStep, timers>>
             [] OTHER ->
                  /\ toast' = NoToast
                  /\ pc' = "crashed"
                  /\ UNCHANGED <<localStorage, formValues, currentStep, timers,
                                 submission>>
    /\ UNCHANGED <<hasWindow, isClient, dogLicenseSchema, renderedStep, defaultValues,
                   watchedValues, savedData, location, tabB>>

\* The timer of lines 181-183 fires, two seconds after the submission and
\* so after its render: the page is left for the tracking route, and the
\* component's state goes with it.
Navigate ==
    /\ pc = "ready"
    /\ ~RenderPending
    /\ \E applicationId \in timers :
         location' = TrackPage(applicationId)
    /\ timers' = {}
    /\ pc' = "left"
    /\ isClient' = FALSE
    /\ currentStep' = 1
    /\ renderedStep' = 1
    /\ formValues' = InitialDefaultValues
    /\ defaultValues' = InitialDefaultValues
    /\ watchedValues' = InitialDefaultValues
    /\ savedData' = NotRead
    /\ submission' = NoSubmission
    /\ toast' = NoToast
    /\ UNCHANGED <<hasWindow, localStorage, dogLicenseSchema, tabB>>

Next ==
    \/ MountEffects
    \/ RestoreEffect
    \/ SaveEffect
    \/ Render
    \/ \E field \in Fields : \E value \in Inputs(field) : ChangeField(field, value)
    \/ nextStep
    \/ prevStep
    \/ SubmitRead
    \/ SubmitWrite
    \/ Navigate

Spec == Init /\ [][Next]_vars

(***************************************************************************)
(* A second tab of the same origin runs the same onSubmit on the shared    *)
(* localStorage.  Only its submission is modelled: its form holds valid    *)
(* values for another dog.  Each tab's onSubmit is one synchronous run,    *)
(* but nothing orders the two tabs' storage accesses: a tab's read (line   *)
(* 168) and its write (line 170) are separate steps.                       *)
(***************************************************************************)
TabBValues == [ValidValues EXCEPT !["dogName"] = Str(<<"B", "o">>)]

TabBRead ==
    /\ tabB.state = "none"
    /\ \E timestamp \in ClockReadings, random \in RandomSamples :
         LET applicationId == generateApplicationId(timestamp, random)
             applicationData == ApplicationData(applicationId, TabBValues, timestamp)
             before == getItem("dogLicenseApplications")
             read == ReadApplications(before)
             draft == getItem("dogLicenseFormData")
         IN  IF onSubmitTry(read.threw) = "completed"
             THEN tabB' = Running("running", applicationId, applicationData,
                                  push(read.apps, applicationData), before, draft)
             ELSE tabB' = Running("failure", applicationId, applicationData,
                                  read.apps, before, draft)
    /\ UNCHANGED <<hasWindow, localStorage, isClient, dogLicenseSchema, currentStep,
                   renderedStep, formValues, defaultValues, watchedValues, pc,
                   savedData, submission, toast, timers, location>>

TabBWrite ==
    /\ tabB.state = "running"
    /\ IF onSubmitTry(QuotaExceeded(tabB.existingApps)) = "completed"
       THEN /\ localStorage' =
                 [dogLicenseApplications |-> JSONstringify(Arr(tabB.existingApps)),
                  dogLicenseFormData |-> NoItem]
            /\ tabB' = [tabB EXCEPT !.state = "success"]
       ELSE /\ tabB' = [tabB EXCEPT !.state = "failure"]
            /\ UNCHANGED localStorage
    /\ UNCHANGED <<hasWindow, isClient, dogLicenseSchema, currentStep, renderedStep,
                   formValues, defaultValues, watchedValues, pc, savedData,
                   submission, toast, timers, location>>

\* The first tab's user restores a valid draft and has only the certificate
\* left to choose.
InitTabs ==
    /\ Init
    /\ hasWindow
    /\ localStorage["dogLicenseFormData"] = EarlierDraft(ValidValues)
    /\ localStorage["dogLicenseApplications"] \in
         {NoItem, OneRecordList}

NextTabs ==
    \/ MountEffects
    \/ RestoreEffect
    \/ SaveEffect
    \/ Render
    \/ ChangeField("vaccinationCertificate", ValidInput("vaccinationCertificate"))
    \/ nextStep
    \/ prevStep
    \/ SubmitRead
    \/ SubmitWrite
    \/ Navigate
    \/ TabBRead
    \/ TabBWrite

SpecTabs == InitTabs /\ [][NextTabs]_vars

(***************************************************************************)
(* The schema on its own: zodResolver(dogLicenseSchema), line 99, run on   *)
(* form values whose certificate is any of a range of files, in a browser  *)
(* (where the wizard stands at step 3 with its other fields valid) and     *)
(* where window or FileList do not exist (a render on the server).         *)
(***************************************************************************)
FileSizes ==
    {0, 5 * 1024 * 1024 - 1, 5 * 1024 * 1024, 5 * 1024 * 1024 + 1,
     6 * 1024 * 1024}

FileTypes ==
    {"application/pdf", "image/jpeg", "image/png", "image/jpg", "image/gif",
     "text/plain", ""}

FileCandidates ==
    {Undefined, FileList(<<>>)} \cup
    {FileList(<<File(size, type)>>) : size \in FileSizes, type \in FileTypes}

InitSchema ==
    /\ hasWindow \in BOOLEAN
    /\ dogLicenseSchema = createDogLicenseSchema(hasWindow)
    /\ \E file \in FileCandidates :
         formValues = [ValidValues EXCEPT !["vaccinationCertificate"] = file]
    /\ watchedValues = formValues
    /\ defaultValues = InitialDefaultValues
    /\ isClient = hasWindow
    /\ currentStep = (IF hasWindow THEN 3 ELSE 1)
    /\ renderedStep = currentStep
    /\ pc = (IF hasWindow THEN "ready" ELSE "initial")
    /\ localStorage =
         [dogLicenseFormData |-> IF hasWindow THEN DraftText(formValues) ELSE NoItem,
          dogLicenseApplications |-> NoItem]
    /\ savedData = NotRead
    /\ submission = NoSubmission
    /\ toast = NoToast
    /\ timers = {}
    /\ location = FormPage
    /\ tabB = NoSubmission

\* The resolver runs on the form values: pc keeps whether it reports an
\* error for the certificate.
ResolverRun ==
    /\ pc \in {"initial", "ready"}
    /\ pc' = (IF "vaccinationCertificate" \in FieldErrors(dogLicenseSchema, formValues)
              THEN "rejected" ELSE "accepted")
    /\ UNCHANGED <<hasWindow, localStorage, isClient, dogLicenseSchema, currentStep,
                   renderedStep, formValues, defaultValues, watchedValues, savedData,
                   submission, toast, timers, location, tabB>>

NextSchema ==
    \/ ResolverRun
    \/ nextStep

SpecSchema == InitSchema /\ [][NextSchema]_vars

(***************************************************************************)
(* The claims.  What a claim says of steps, fields and storage is written  *)
(* here in its own terms, not with the operators of the handlers.          *)
(***************************************************************************)
\* The fields each step owns, as the claims list them.
OwnedFields(step) ==
    CASE step = 1 -> {"ownerName", "ownerAddress", "ownerPhone"}
      [] step = 2 -> {"dogName", "dogBreed", "dogAge", "dogColor"}
      [] step = 3 -> {"lastRabiesShotDate", "vaccinationCertificate"}

\* The records of a stored submission list; none when the item is absent
\* or is not a JSON array.
RecordsOf(item) ==
    IF item.text = "json" /\ item.v.t = "array" THEN item.v.a ELSE <<>>

StoredRecords == RecordsOf(localStorage["dogLicenseApplications"])
StoredDraft == localStorage["dogLicenseFormData"]

\* The stored list is absent or is a JSON array.
WellFormedList(item) == item = NoItem \/ (item.text = "json" /\ item.v.t = "array")

\* C1: nextStep invoked while step s (1..3) is shown and a field that step s
\* owns fails its rule leaves the step index as it is and raises the
\* "Please fix the errors" notification.
C1_InvalidStepBlocks ==
    [][\A s \in 1..3 :
         (/\ renderedStep = s
          /\ nextStep
          /\ \E f \in OwnedFields(s) : ~FieldValid(dogLicenseSchema, f, formValues[f]))
         => (currentStep' = currentStep /\ toast' = FixErrorsToast)]_vars

\* A nextStep at step 3 was refused for the missing certificate alone.
C1_Witness ==
    /\ toast = FixErrorsToast
    /\ currentStep = 3 /\ renderedStep = 3
    /\ FieldValid(dogLicenseSchema, "lastRabiesShotDate",
                  formValues["lastRabiesShotDate"])
    /\ ~FieldValid(dogLicenseSchema, "vaccinationCertificate",
                   formValues["vaccinationCertificate"])

\* C2: once a successful submission has been rendered (form reset, step
\* reset, save effect), the stored list is the list read before the
\* submission with the new record appended, and the draft key is absent.
C2_SubmissionSettled ==
    (submission.state = "success" /\ pc = "ready" /\ ~RenderPending)
    => /\ StoredRecords = Append(RecordsOf(submission.before),
                                 ToJSON(submission.applicationData))
       /\ StoredDraft = NoItem

\* C3: an exception inside onSubmit (the stored list cannot be parsed or is
\* no array, or writing the list is over the quota) does not escape, raises
\* the generic failure notification and leaves the draft key as it was when
\* the attempt began.
C3_FailureIsCaught ==
    [][/\ (SubmitRead /\ ~WellFormedList(localStorage["dogLicenseApplications"]))
          => /\ pc' = "ready"
             /\ toast' = FailureToast
             /\ StoredDraft' = StoredDraft
       /\ (SubmitWrite /\ Len(submission.existingApps) > QuotaRecords)
          => /\ pc' = "ready"
             /\ toast' = FailureToast
             /\ StoredDraft' = submission.draft]_vars

\* A submission failed, the failure was notified and the draft is kept.
C3_Witness ==
    /\ submission.state = "failure"
    /\ pc = "ready"
    /\ toast = FailureToast
    /\ StoredDraft # NoItem
    /\ StoredDraft = submission.draft

\* C4: the step index is always one of 1..4.
C4_StepInRange == currentStep \in 1..4 /\ renderedStep \in 1..4

\* A second nextStep ran before the first one's update was rendered, with
\* the index already at the last step.
C4_Witness == currentStep = 4 /\ renderedStep = 2

\* Every field holds a value that passes its rule.
AllFieldsValid(values) ==
    \A f \in Fields : FieldValid(dogLicenseSchema, f, values[f])

\* The position of the "-" that ends the second component of an identifier.
SecondDash(id) ==
    CHOOSE p \in 5..(Len(id) + 1) :
        /\ p = Len(id) + 1 \/ id[p] = "-"
        /\ \A q \in 5..(p - 1) : id[q] # "-"

\* An identifier reads DOG-<digits>-<digits>, the last number in 0..9999.
IsDogIdentifier(id) ==
    /\ Len(id) >= 7
    /\ SubSeq(id, 1, 4) = <<"D", "O", "G", "-">>
    /\ LET p == SecondDash(id)
           first == SubSeq(id, 5, p - 1)
           last == SubSeq(id, p + 1, Len(id))
       IN  /\ p < Len(id)
           /\ first # <<>> /\ AllDigits(first)
           /\ last # <<>> /\ AllDigits(last)
           /\ DigitsToNumber(last) \in 0..9999

\* What the claims expect of a step of a run on valid values: nextStep
\* moves the index up by one, and a submission made in the circumstances
\* `when` goes through and stores a record under a DOG-<digits>-<digits>
\* identifier.
ValidRunStep(when) ==
    /\ (nextStep /\ currentStep < 4 /\ AllFieldsValid(formValues))
       => currentStep' = currentStep + 1
    /\ (SubmitRead /\ WellFormedList(localStorage["dogLicenseApplications"]))
       => pc' = "onSubmit"
    /\ (SubmitWrite /\ when)
       => /\ submission'.state = "success"
          /\ toast' = SuccessToast(submission.applicationId)
          /\ IsDogIdentifier(submission.applicationId)
          /\ StoredRecords' # <<>>
          /\ StoredRecords'[Len(StoredRecords')].o["id"] =
               Str(submission.applicationId)

PopulatedDraft(item) ==
    /\ item.text = "json"
    /\ item.v.t = "object"
    /\ \A f \in ScalarFields :
         /\ f \in DOMAIN item.v.o
         /\ item.v.o[f].t = "string"
         /\ item.v.o[f].s # <<>>

\* C6: after loading from a draft whose eight scalar fields are populated,
\* each of those form fields holds the value the draft stored.
C6_DraftRestored ==
    PopulatedDraft(savedData)
    => \A f \in ScalarFields : formValues[f] = savedData.v.o[f]

\* The load is complete and the restored values are rendered.
C6_Witness ==
    /\ PopulatedDraft(savedData)
    /\ pc = "ready"
    /\ ~RenderPending
    /\ \A f \in ScalarFields : formValues[f] = savedData.v.o[f]

\* C7: loading with a draft that is no JSON lets no exception out of the
\* restore effect, leaves every field at its empty default and the wizard
\* at step 1, going on to be ready for the user.
C7_CorruptDraftIgnored ==
    (savedData.text = "invalid")
    => /\ pc \in {"save", "ready"}
       /\ \A f \in ScalarFields : formValues[f] = Str(<<>>)
       /\ formValues["vaccinationCertificate"] = Undefined
       /\ currentStep = 1

\* The wizard is ready after a corrupted draft, and the user can type.
C7_Witness ==
    /\ savedData.text = "invalid"
    /\ pc = "ready"
    /\ \A f \in ScalarFields : formValues[f] = Str(<<>>)
    /\ ENABLED ChangeField("ownerName", ValidInput("ownerName"))

\* The stored draft is an object without the file field.
DraftWithoutFile ==
    (StoredDraft.text = "json" /\ StoredDraft.v.t = "object")
    => "vaccinationCertificate" \notin DOMAIN StoredDraft.v.o

\* C8: the change of a scalar field leaves under the draft key exactly the
\* scalar values the form now holds, and the stored draft never has the
\* vaccinationCertificate field.
C8_DraftFollowsForm ==
    /\ []DraftWithoutFile
    /\ [][\A field \in ScalarFields :
            (\E value \in Inputs(field) : ChangeField(field, value))
            => /\ StoredDraft'.text = "json"
               /\ StoredDraft'.v.t = "object"
               /\ DOMAIN StoredDraft'.v.o = ScalarFields
               /\ \A f \in ScalarFields : StoredDraft'.v.o[f] = formValues'[f]]_vars

\* A file is chosen, a scalar field was changed since, and the draft holds
\* the scalar values alone.
C8_Witness ==
    /\ pc = "ready"
    /\ formValues["vaccinationCertificate"] # Undefined
    /\ formValues["lastRabiesShotDate"] = Str(<<>>)
    /\ StoredDraft.text = "json"
    /\ DOMAIN StoredDraft.v.o = ScalarFields
    /\ \A f \in ScalarFields : StoredDraft.v.o[f] = formValues[f]

\* C9: every record of the stored list stays in the list, where it was and
\* as it was.
C9_AppendOnly ==
    [][\A i \in 1..Len(StoredRecords) :
         /\ i <= Len(StoredRecords')
         /\ StoredRecords'[i] = StoredRecords[i]]_vars

\* C10: the list a tab writes is the list it read when its onSubmit began
\* with its record appended, whatever the storage holds by then; so two
\* tabs can both succeed and leave one of the two records.
C10_WriteFromOwnRead ==
    [][/\ (SubmitWrite /\ submission'.state = "success")
          => StoredRecords' = Append(RecordsOf(submission.before),
                                     ToJSON(submission.applicationData))
       /\ (TabBWrite /\ tabB'.state = "success")
          => StoredRecords' = Append(RecordsOf(tabB.before),
                                     ToJSON(tabB.applicationData))]_vars

\* Both tabs report success and the stored list has lost one record.
C10_Witness ==
    /\ submission.state = "success"
    /\ tabB.state = "success"
    /\ LET stored == {StoredRecords[i] : i \in 1..Len(StoredRecords)}
           a == ToJSON(submission.applicationData)
           b == ToJSON(tabB.applicationData)
       IN  (a \in stored) # (b \in stored)

\* C11: a successful submission leaves the wizard at step 1 with every field
\* at its empty default, notifies the identifier of the record it appended
\* and schedules the navigation for that identifier; the page is left for
\* the tracking route only with the identifier of a scheduled navigation,
\* which is that of a stored record.
C11_ResetAndRedirect ==
    [][/\ (SubmitWrite /\ submission'.state = "success")
          => /\ currentStep' = 1
             /\ \A f \in ScalarFields : formValues'[f] = Str(<<>>)
             /\ formValues'["vaccinationCertificate"] = Undefined
             /\ toast' = SuccessToast(submission.applicationId)
             /\ submission.applicationId \in timers'
             /\ StoredRecords'[Len(StoredRecords')].o["id"] =
                  Str(submission.applicationId)
       /\ (location' # location)
          => \E id \in timers :
               /\ location' = TrackPage(id)
               /\ \E i \in 1..Len(StoredRecords) : StoredRecords[i].o["id"] = Str(id)
      ]_vars

\* C12: prevStep, at whatever step and whether or not the fields of that
\* step are valid, validates nothing, sets the step index to
\* max(index - 1, 1) and leaves the form values and the stored submission
\* list as they were.
C12_PrevStepUnconditional ==
    [][prevStep
       => /\ currentStep' = (IF currentStep - 1 > 1 THEN currentStep - 1 ELSE 1)
          /\ formValues' = formValues
          /\ localStorage'["dogLicenseApplications"] =
               localStorage["dogLicenseApplications"]
          /\ toast' # FixErrorsToast]_vars

\* The wizard is back at step 2 from step 3, where the date was typed and
\* the certificate was still missing.
C12_Witness ==
    /\ pc = "ready"
    /\ currentStep = 2 /\ renderedStep = 2
    /\ timers = {}
    /\ defaultValues = InitialDefaultValues
    /\ formValues["lastRabiesShotDate"] = ValidInput("lastRabiesShotDate")
    /\ formValues["vaccinationCertificate"] = Undefined

\* A certificate as the claims want it: a file is present, of at most
\* 5 * 1024 * 1024 bytes, of a PDF, JPEG or PNG type.
AcceptableCertificate(v) ==
    /\ v.t = "FileList"
    /\ Len(v.files) >= 1
    /\ v.files[1].size <= 5 * 1024 * 1024
    /\ v.files[1].type \in {"application/pdf", "image/jpeg", "image/jpg", "image/png"}

\* C13: in a browser the certificate passes validation exactly when it is
\* an acceptable file, and nextStep at step 3 does not advance without one;
\* outside a browser the certificate passes whatever it is, absent or not.
C13_CertificateRule ==
    [][LET file == formValues["vaccinationCertificate"]
       IN  /\ (ResolverRun /\ hasWindow)
              => (pc' = "accepted" <=> AcceptableCertificate(file))
           /\ (ResolverRun /\ ~hasWindow) => pc' = "accepted"
           /\ (nextStep /\ hasWindow /\ renderedStep = 3
                       /\ ~AcceptableCertificate(file))
              => (currentStep' = currentStep /\ toast' = FixErrorsToast)]_vars

\* In a browser a JPEG of exactly five megabytes was accepted.
C13_Witness ==
    /\ hasWindow
    /\ pc = "accepted"
    /\ formValues["vaccinationCertificate"] =
         FileList(<<File(5 * 1024 * 1024, "image/jpg")>>)

\* A stored list from which a submission can go through: it is absent or a
\* JSON array, and the storage has room for one record more.
ListAcceptsSubmission(item) ==
    /\ WellFormedList(item)
    /\ Len(RecordsOf(item)) < QuotaRecords

\* C14: a failed submission is recoverable by retrying: after a failure the
\* storage is in no state that makes every later submission fail, so the
\* stored list is one from which a submission can go through.
C14_FailureRecoverable ==
    (submission.state = "failure" /\ pc = "ready")
    => ListAcceptsSubmission(localStorage["dogLicenseApplications"])

\* Why such a failure is for ever: the wizard changes the stored list only
\* by a successful submission, and none succeeds on a list that does not
\* accept one.
C14_RefusingListStays ==
    [][~ListAcceptsSubmission(localStorage["dogLicenseApplications"])
       => /\ localStorage'["dogLicenseApplications"] =
               localStorage["dogLicenseApplications"]
          /\ (submission'.state = "success" => submission.state = "success")]_vars

\* C15: a draft is stored only after a field change: loaded without a
\* draft, and with nothing done by the user since, the wizard leaves the
\* draft key absent.
C15_NoDraftWithoutChange ==
    (savedData = NoItem) => StoredDraft = NoItem

\* C17: onSubmit runs only while the wizard is at step 4; no user action at
\* steps 1..3 causes a submission.
C17_SubmitOnlyAtLastStep ==
    [][SubmitRead => (currentStep = 4 /\ renderedStep = 4)]_vars

\* C18: even when nextStep invocations overlap, the wizard never moves
\* past a step whose fields were not validated: a nextStep that raises the
\* step index from k does so with every field of step k passing its rule.
C18_NeverPastUnvalidatedStep ==
    [][(nextStep /\ currentStep' > currentStep)
       => \A f \in OwnedFields(currentStep) :
            FieldValid(dogLicenseSchema, f, formValues[f])]_vars

\* C19: every record a wizard in a browser appends has all nine fields
\* passing their rules at the moment of the submission, whatever edits,
\* step changes and draft restoration came before.
C19_StoredRecordsValid ==
    [][(SubmitWrite /\ hasWindow /\ Len(StoredRecords') > Len(StoredRecords))
       => LET data == submission.applicationData.o
          IN  /\ \A f \in OwnedFields(1) \cup OwnedFields(2) \cup OwnedFields(3) :
                   FieldValid(createDogLicenseSchema(TRUE), f, data[f])
              /\ data = formValues @@ data
              /\ StoredRecords'[Len(StoredRecords')] =
                   ToJSON(submission.applicationData)]_vars

\* A record was appended by a wizard that had restored a draft.
C19_Witness ==
    /\ submission.state = "success"
    /\ defaultValues # InitialDefaultValues
    /\ StoredRecords # <<>>
    /\ StoredRecords[Len(StoredRecords)] = ToJSON(submission.applicationData)

\* C20: a submission that reports failure leaves the stored list as it was
\* before the attempt, the step index and the form values unchanged, raises
\* no success notification and schedules no navigation.
C20_FailureHasNoOtherEffect ==
    [][((SubmitRead \/ SubmitWrite) /\ submission'.state = "failure")
       => /\ toast' = FailureToast
          /\ localStorage'["dogLicenseApplications"] = submission'.before
          /\ localStorage'["dogLicenseApplications"] =
               localStorage["dogLicenseApplications"]
          /\ currentStep' = currentStep
          /\ formValues' = formValues
          /\ timers' = timers
          /\ location' = location]_vars

\* The write of a full list was refused at step 4: the list, the step and
\* the values are those of before.
C20_Witness ==
    /\ submission.state = "failure"
    /\ localStorage["dogLicenseApplications"] = FullList
    /\ submission.before = FullList
    /\ currentStep = 4 /\ renderedStep = 4
    /\ formValues = ValidValues
    /\ timers = {}

\* How many of the records carry the identifier.
SameIdCount(records, id) ==
    Cardinality({i \in 1..Len(records) : records[i].o["id"] = Str(id)})

\* Both tabs have finished a submission under one and the same identifier.
BothSubmittedSameId ==
    /\ submission.state \in {"success", "failure"}
    /\ tabB.state \in {"success", "failure"}
    /\ submission.applicationId = tabB.applicationId

\* C16 as stated: two submissions that obtained the same timestamp and the
\* same random suffix both succeed, and the stored list holds two records
\* with that identifier.
C16_CollidingIdsBothStored ==
    BothSubmittedSameId
    => /\ submission.state = "success"
       /\ tabB.state = "success"
       /\ SameIdCount(StoredRecords, submission.applicationId) >= 2

\* What does hold of C16, submission by submission: one whose identifier is
\* already in the list it read is not refused for that; unless the storage
\* refuses the write for its quota, it succeeds and the list it writes
\* holds two records with that identifier.
C16_NoCollisionDetection ==
    [][/\ (/\ SubmitWrite
           /\ SameIdCount(RecordsOf(submission.before), submission.applicationId) >= 1
           /\ Len(RecordsOf(submission.before)) < QuotaRecords)
          => /\ submission'.state = "success"
             /\ SameIdCount(StoredRecords', submission.applicationId) >= 2
       /\ (/\ TabBWrite
           /\ SameIdCount(RecordsOf(tabB.before), tabB.applicationId) >= 1
           /\ Len(RecordsOf(tabB.before)) < QuotaRecords)
          => /\ tabB'.state = "success"
             /\ SameIdCount(StoredRecords', tabB.applicationId) >= 2]_vars

\* Both tabs succeeded under one identifier and the list holds both records.
C16_Witness ==
    /\ BothSubmittedSameId
    /\ submission.state = "success"
    /\ tabB.state = "success"
    /\ SameIdCount(StoredRecords, submission.applicationId) = 2

\* C21: loading with a well-formed draft, the restore effect reads the
\* draft key before the save effect writes it, and for as long as the user
\* has done nothing the key holds the field values that were stored; the
\* empty initial values never take their place.
C21_DraftKeptDuringLoad ==
    /\ (pc \in {"initial", "restore"}) => savedData = NotRead
    /\ (savedData.text = "json" /\ savedData.v.t = "object")
       => /\ StoredDraft = savedData
          /\ StoredDraft # EarlierDraft(InitialDefaultValues)
             \/ savedData = EarlierDraft(InitialDefaultValues)

====
